---- MODULE Spec2Model ----
(***************************************************************************)
(* Model of model_organization/config.py: the locked file I/O (safe_load,  *)
(* safe_dump), the path normalizer (fix_paths, rel_paths), the projects    *)
(* registry (ProjectsConfig) and the experiments registry                  *)
(* (ExperimentsConfig).                                                    *)
(*                                                                         *)
(* A path string is the sequence of its '/'-separated segments, so         *)
(* "/p/out" is <<"", "p", "out">>, "out" is <<"out">>, "" is <<"">> and    *)
(* "/" is <<"", "">>.  A Document (an ordered mapping) is a sequence of    *)
(* entries [k |-> key, t |-> tag, v |-> value]; the tag tells the Python   *)
(* type of the value: "str" a string, "list" a sequence of strings, "map"  *)
(* a nested mapping, "name" a non-path string (a project name), "num" a    *)
(* number.                                                                 *)
(***************************************************************************)
EXTENDS Integers, Sequences, FiniteSets, TLC

-----------------------------------------------------------------------------
(* Bounds of the model *)

\* the number of write(2) calls one serialized document takes
DocLen == 2

\* the longest path string of the normalizer's inputs, in segments
MaxSegs == 2

\* the longest sequence of path strings of the normalizer's inputs
MaxList == 2

\* the deepest nesting of mappings of the normalizer's inputs
MaxDepth == 2

-----------------------------------------------------------------------------
(* posixpath, as used by fix_paths and rel_paths *)

\* the working directory of the process, "/w"
Cwd == <<"", "w">>

\* osp.isabs(s): s starts with '/'
isabs(s) == Len(s) >= 2 /\ s[1] = ""

\* osp.join(a, b)
join(a, b) ==
  IF isabs(b) THEN b
  ELSE IF a = <<"">> THEN b
  ELSE IF Len(a) >= 2 /\ a[Len(a)] = "" THEN SubSeq(a, 1, Len(a) - 1) \o b
  ELSE a \o b

\* the loop of osp.normpath over the components: '' and '.' are dropped, '..'
\* pops the last component unless there is none to pop (kept for a relative
\* path, dropped at the root of an absolute one)
RECURSIVE NormComps(_, _, _)
NormComps(s, acc, abs) ==
  IF s = <<>> THEN acc
  ELSE LET c == Head(s) IN
    IF c = "" \/ c = "." THEN NormComps(Tail(s), acc, abs)
    ELSE IF c # ".." \/ (~abs /\ acc = <<>>)
              \/ (acc # <<>> /\ acc[Len(acc)] = "..")
      THEN NormComps(Tail(s), Append(acc, c), abs)
    ELSE IF acc # <<>> THEN NormComps(Tail(s), SubSeq(acc, 1, Len(acc) - 1), abs)
    ELSE NormComps(Tail(s), acc, abs)

\* the end of osp.normpath: the components joined again behind the initial
\* slashes (two of them are kept, one or more than two make one)
normJoin(s, comps) ==
  IF ~isabs(s) THEN (IF comps = <<>> THEN <<".">> ELSE comps)
  ELSE IF Len(s) >= 3 /\ s[1] = "" /\ s[2] = "" /\ ~(Len(s) >= 4 /\ s[3] = "")
    THEN <<"", "">> \o (IF comps = <<>> THEN <<"">> ELSE comps)
  ELSE IF comps = <<>> THEN <<"", "">>
  ELSE <<"">> \o comps

\* osp.normpath(s)
normpath(s) ==
  IF s = <<"">> THEN <<".">> ELSE normJoin(s, NormComps(s, <<>>, isabs(s)))

\* osp.abspath(s)
abspath(s) == normpath(IF isabs(s) THEN s ELSE join(Cwd, s))

\* the non-empty components of a path string
Comps(s) == LET ix == {i \in 1..Len(s) : s[i] # ""}
                RECURSIVE Pick(_)
                Pick(i) == IF i > Len(s) THEN <<>>
                           ELSE IF i \in ix THEN <<s[i]>> \o Pick(i + 1)
                           ELSE Pick(i + 1)
            IN  Pick(1)

\* the length of the common prefix of two component lists
RECURSIVE CommonLen(_, _)
CommonLen(x, y) ==
  IF x = <<>> \/ y = <<>> \/ Head(x) # Head(y) THEN 0
  ELSE 1 + CommonLen(Tail(x), Tail(y))

\* osp.relpath(path, start) raises ValueError on an empty path
relpathRaises(path) == path = <<"">>

\* the end of osp.relpath: '..' for what is left of start_list behind the
\* common prefix of length i, then what is left of path_list; '.' if nothing
relJoin(sl, pl, i) ==
  IF Len(sl) <= i /\ Len(pl) <= i THEN <<".">>
  ELSE [j \in 1..(Len(sl) - i) |-> ".."] \o SubSeq(pl, i + 1, Len(pl))

\* osp.relpath on the component lists of start and path
relFrom(sl, pl) == relJoin(sl, pl, CommonLen(sl, pl))

\* osp.relpath(path, start), for a non-empty path
relpath(path, start) == relFrom(Comps(abspath(start)), Comps(abspath(path)))

-----------------------------------------------------------------------------
(* The path normalizer *)

\* ExperimentsConfig.paths: the path-like keys
paths == {"expdir", "src", "data", "input", "outdata", "outdir",
          "plot_output", "project_output"}

\* utils.safe_list(val), whose source is not at hand: the list made of val.
\* Its items carry their type; the specification's edge case (an empty
\* sequence has no first element to test and is not rewritten) makes the
\* first item of an empty sequence something that is no string.
safe_list(e) ==
  IF e.t = "list" /\ e.v # <<>> THEN [i \in 1..Len(e.v) |-> [t |-> "str", v |-> e.v[i]]]
  ELSE IF e.t = "list" THEN <<[t |-> "none", v |-> <<>>]>>
  ELSE <<[t |-> e.t, v |-> e.v]>>

\* isinstance(utils.safe_list(val)[0], six.string_types)
firstIsString(e) == Head(safe_list(e)).t \in {"str", "name"}

\* val[0] of the elif branches: the first element of a sequence, the first
\* character of a string ("/" for an absolute one)
first(e) == IF e.t = "list" THEN e.v[1]
            ELSE IF isabs(e.v) THEN <<"", "">> ELSE <<"c">>

\* a loop body that takes an empty sequence for a sequence of one empty
\* path
fixEntryPadded(e, root) ==
  IF e.k \notin paths THEN e
  ELSE IF e.t = "list" /\ e.v = <<>> THEN [e EXCEPT !.v = <<root>>]
  ELSE IF e.t = "str" /\ ~isabs(e.v) THEN [e EXCEPT !.v = join(root, e.v)]
  ELSE IF e.t \in {"str", "list"} /\ firstIsString(e) /\ ~isabs(first(e))
    THEN [e EXCEPT !.v = [i \in 1..Len(e.v) |-> join(root, e.v[i])]]
  ELSE e

\* the body of the loop of fix_paths for one entry that is no mapping
fixEntry(e, root) ==
  IF e.k \notin paths THEN e
  ELSE IF e.t = "str" /\ ~isabs(e.v) THEN [e EXCEPT !.v = join(root, e.v)]
  ELSE IF e.t \in {"str", "list"} /\ firstIsString(e) /\ ~isabs(first(e))
    THEN [e EXCEPT !.v = [i \in 1..Len(e.v) |-> join(root, e.v[i])]]
  ELSE e

\* the loop of fix_paths (lines 344-355) with root resolved: every entry in
\* turn, a nested mapping by recursion
RECURSIVE fixWalk(_, _)
fixWalk(d, root) ==
  [i \in 1..Len(d) |->
     IF d[i].t = "map" THEN [d[i] EXCEPT !.v = fixWalk(d[i].v, root)]
     ELSE fixEntry(d[i], root)]

\* rel_paths on one sequence, element by element from index i: the elements
\* before an empty string are rewritten in place when relpath raises on it
RECURSIVE relList(_, _, _)
relList(l, root, i) ==
  IF i > Len(l) THEN [ok |-> TRUE, v |-> l]
  ELSE IF relpathRaises(l[i]) THEN [ok |-> FALSE, v |-> l]
  ELSE relList([l EXCEPT ![i] = relpath(l[i], root)], root, i + 1)

\* rel_paths that forgets the sequences: only single path strings are made
\* relative
relEntryStringsOnly(e, root) ==
  IF e.k \in paths /\ e.t = "str" /\ isabs(e.v)
    THEN [ok |-> TRUE, e |-> [e EXCEPT !.v = relpath(e.v, root)]]
  ELSE [ok |-> TRUE, e |-> e]

\* the entry e with the sequence r.v, or the nested mapping r.d, that the
\* rewrite of its value left, and whether that rewrite completed
withValue(e, r) == [ok |-> r.ok, e |-> [e EXCEPT !.v = r.v]]
withDoc(e, r)   == [ok |-> r.ok, e |-> [e EXCEPT !.v = r.d]]

\* the body of the loop of rel_paths for one entry that is no mapping;
\* ok is FALSE when it raises (val[0] of an empty string, relpath of one)
relEntry(e, root) ==
  IF e.k \notin paths THEN [ok |-> TRUE, e |-> e]
  ELSE IF e.t = "str" /\ isabs(e.v)
    THEN [ok |-> TRUE, e |-> [e EXCEPT !.v = relpath(e.v, root)]]
  ELSE IF e.t = "str" /\ e.v = <<"">> THEN [ok |-> FALSE, e |-> e]
  ELSE IF e.t = "list" /\ firstIsString(e) /\ isabs(first(e))
    THEN withValue(e, relList(e.v, root, 1))
  ELSE [ok |-> TRUE, e |-> e]

\* the loop of rel_paths (lines 386-397) with root resolved, from entry i on:
\* the Document as it is left (it is modified in place) and whether the loop
\* completed; relItem is its body for the entry e, a nested mapping by
\* recursion, and relStep goes on behind entry i, whose outcome is r
RECURSIVE relWalk(_, _, _)
RECURSIVE relItem(_, _)
RECURSIVE relStep(_, _, _, _)
relWalk(d, root, i) ==
  IF i > Len(d) THEN [ok |-> TRUE, d |-> d]
  ELSE relStep(d, root, i, relItem(d[i], root))
relItem(e, root) ==
  IF e.t = "map" THEN withDoc(e, relWalk(e.v, root, 1))
  ELSE relEntry(e, root)
relStep(d, root, i, r) ==
  IF r.ok THEN relWalk([d EXCEPT ![i] = r.e], root, i + 1)
  ELSE [ok |-> FALSE, d |-> [d EXCEPT ![i] = r.e]]


-----------------------------------------------------------------------------
(* Ordered mappings *)

\* key in d
Has(d, k) == \E i \in 1..Len(d) : d[i].k = k

\* the entry of key k, for a key of d
Entry(d, k) == d[CHOOSE i \in 1..Len(d) : d[i].k = k]

\* d[k] = e.v (OrderedDict.__setitem__): an existing key keeps its place, a
\* new key goes last
Put(d, e) ==
  IF Has(d, e.k) THEN [i \in 1..Len(d) |-> IF d[i].k = e.k THEN e ELSE d[i]]
  ELSE Append(d, e)

\* del d[k]
RECURSIVE Del(_, _)
Del(d, k) ==
  IF d = <<>> THEN <<>>
  ELSE IF Head(d).k = k THEN Tail(d)
  ELSE <<Head(d)>> \o Del(Tail(d), k)

\* the keys of d, in order
Keys(d) == [i \in 1..Len(d) |-> d[i].k]

\* the elements of a sequence
Range(q) == {q[i] : i \in 1..Len(q)}

-----------------------------------------------------------------------------
(* State *)

VARIABLES
  norm,           \* the normalizer under test: its inputs and results
  platform,       \* how the lock primitive treats a second lock object of
                  \* the process that holds the lock
  fs,             \* the managed file, its backup and the inodes
  lockOwner,      \* the process that holds the lock of the lock file, or 0
  proc,           \* each process: its operation, its place in it, its result
  projects,       \* the Projects Registry: name -> Document or other value
  project_paths,  \* ProjectsConfig.project_paths
  exps,           \* the Experiments Registry: name -> reference, Document,
                  \* Archive (or None)
  pmap,           \* ExperimentsConfig._project_map
  disk,           \* the YAML files of the configuration and the projects
  last            \* the outcome of the last registry operation

normVars == <<norm>>
lockVars == <<platform, fs, lockOwner, proc>>
regVars  == <<projects, project_paths, exps, pmap, disk, last>>
vars     == <<norm, platform, fs, lockOwner, proc, projects, project_paths,
              exps, pmap, disk, last>>

\* None, where a project name is expected, and where a path is
NoName == "<None>"
NoPath == <<>>


\* self.projects[project]['root'], NoPath when the lookup raises (no such
\* project, a value that is no mapping, a mapping without 'root')
rootOf(project) ==
  IF Has(projects, project) /\ Entry(projects, project).t = "map"
       /\ Has(Entry(projects, project).v, "root")
    THEN Entry(Entry(projects, project).v, "root").v
  ELSE NoPath

\* lines 333-342 and 375-384: the root the paths are taken relative to,
\* NoPath when resolving it raises
resolveRoot(d, root, project) ==
  IF root = NoPath /\ project = NoName
    THEN LET p == IF Has(d, "project") THEN Entry(d, "project").v ELSE NoName
         IN  IF p # NoName THEN rootOf(p)
             ELSE IF Has(d, "root") THEN Entry(d, "root").v
             ELSE NoPath
  ELSE IF root = NoPath THEN rootOf(project)
  ELSE root

\* fix_paths that leaves the paths as they are
fix_pathsOff(d, root, project) == [ok |-> resolveRoot(d, root, project) # NoPath, d |-> d]

\* ExperimentsConfig.fix_paths(d, root, project): d as it is left and
\* whether the call returned
fix_paths(d, root, project) ==
  LET r == resolveRoot(d, root, project)
  IN  IF r = NoPath THEN [ok |-> FALSE, d |-> d]
      ELSE [ok |-> TRUE, d |-> fixWalk(d, r)]

\* ExperimentsConfig.rel_paths(d, root, project): d as it is left and
\* whether the call returned
rel_paths(d, root, project) ==
  LET r == resolveRoot(d, root, project)
  IN  IF r = NoPath THEN [ok |-> FALSE, d |-> d]
      ELSE relWalk(d, r, 1)

-----------------------------------------------------------------------------
(* The normalizer on its own: fix_paths and rel_paths with an explicit root *)

\* the segments the input path strings are made of
Segs == {"p", "q", "..", "."}

\* all sequences over S of length at most n
RECURSIVE SeqsUpTo(_, _)
SeqsUpTo(S, n) ==
  IF n = 0 THEN {<<>>}
  ELSE LET shorter == SeqsUpTo(S, n - 1)
       IN  shorter \cup {Append(q, x) : q \in shorter, x \in S}

\* the relative and the absolute path strings of at most n segments; the
\* empty string and "/" are among them
RelStrs(n) == {IF b = <<>> THEN <<"">> ELSE b : b \in SeqsUpTo(Segs, n)}
AbsStrs(n) == {IF b = <<>> THEN <<"", "">> ELSE <<"">> \o b : b \in SeqsUpTo(Segs, n)}
Strs(n)    == RelStrs(n) \cup AbsStrs(n)

\* a Document holding v under a path-like key at nesting depth n, beside a
\* project name
RECURSIVE Nest(_, _)
Nest(e, n) ==
  IF n = 0 THEN <<[k |-> "project", t |-> "name", v |-> "P1"], e>>
  ELSE <<[k |-> "project", t |-> "name", v |-> "P1"],
         [k |-> "sub", t |-> "map", v |-> Nest(e, n - 1)]>>

\* the Documents the normalizer is tried on: a path string under a path-like
\* key and under another key; a sequence of path strings; a path string and
\* a one-element sequence below nested mappings; a number under a path-like
\* key; an empty sequence under a path-like key, beside a path string that
\* is not empty and below nested mappings
InputDocs ==
       {<<[k |-> "outdir", t |-> "str", v |-> x],
          [k |-> "note", t |-> "str", v |-> x]>> : x \in Strs(MaxSegs)}
  \cup {<<[k |-> "src", t |-> "list", v |-> l]>> : l \in SeqsUpTo(Strs(1), MaxList)}
  \cup {Nest([k |-> "input", t |-> "str", v |-> x], n) :
          x \in Strs(MaxSegs), n \in 1..MaxDepth}
  \cup {Nest([k |-> "data", t |-> "list", v |-> <<x>>], n) :
          x \in Strs(1), n \in 1..MaxDepth}
  \cup {<<[k |-> "expdir", t |-> "num", v |-> 1]>>}
  \cup {<<[k |-> "outdir", t |-> "str", v |-> x],
          [k |-> "data", t |-> "list", v |-> <<>>]>> : x \in Strs(1) \ {<<"">>}}
  \cup {Nest([k |-> "data", t |-> "list", v |-> <<>>], n) : n \in 1..MaxDepth}

\* the roots: "/", "/p" and "/p/q"
InputRoots == {<<"", "">>, <<"", "p">>, <<"", "p", "q">>}

NormIdle == [stage |-> "off"]

NormInit ==
  norm \in {[stage |-> "in", d |-> d, root |-> r] : d \in InputDocs, r \in InputRoots}

\* fix_paths(d, root)
NormFix ==
  /\ norm.stage = "in"
  /\ norm' = [stage |-> "fixed", d |-> norm.d, root |-> norm.root,
              fix |-> fix_paths(norm.d, norm.root, NoName)]
  /\ UNCHANGED <<lockVars, regVars>>

\* fix_paths(fix_paths(d, root), root)
NormFixAgain ==
  /\ norm.stage = "fixed"
  /\ norm.fix.ok
  /\ norm' = [stage |-> "fixed2", d |-> norm.d, root |-> norm.root,
              fix |-> norm.fix,
              fix2 |-> fix_paths(norm.fix.d, norm.root, NoName)]
  /\ UNCHANGED <<lockVars, regVars>>

\* rel_paths(fix_paths(d, root), root)
NormRel ==
  /\ norm.stage = "fixed"
  /\ norm.fix.ok
  /\ norm' = [stage |-> "rel", d |-> norm.d, root |-> norm.root,
              fix |-> norm.fix,
              rel |-> rel_paths(norm.fix.d, norm.root, NoName)]
  /\ UNCHANGED <<lockVars, regVars>>

\* rel_paths(d, root)
NormRelOnly ==
  /\ norm.stage = "in"
  /\ norm' = [stage |-> "relonly", d |-> norm.d, root |-> norm.root,
              rel |-> rel_paths(norm.d, norm.root, NoName)]
  /\ UNCHANGED <<lockVars, regVars>>


-----------------------------------------------------------------------------
(* Locked file I/O: processes that load and save one file, path, whose lock *)
(* file is path.lck and whose backup is path~                               *)

Procs == {1, 2}

\* the inodes: path, path~ and one open file per process
Inodes == 1..(2 + Cardinality(Procs))

\* the serialized documents: the one path holds at first, and the one
\* process p dumps; chunk i of writer w is <<w, i>>
Old    == [i \in 1..DocLen |-> <<0, i>>]
New(p) == [i \in 1..DocLen |-> <<p, i>>]

\* the inodes in use: linked or open
InUse == {fs.path, fs.bak} \cup {proc[p].fd : p \in Procs}

\* the content of path and of path~, <<>> for a missing file
PathData == IF fs.path = 0 THEN <<>> ELSE fs.data[fs.path]
BakData  == IF fs.bak = 0 THEN <<>> ELSE fs.data[fs.bak]

\* what a file name leads to: whether the file exists, and its content
File(i) == [ex |-> i # 0, data |-> IF i = 0 THEN <<>> ELSE fs.data[i]]

\* a process: its operation, its place in it, its open file, the lock objects
\* it acquired and did not release, the error it raised, what it read; and,
\* for the claims, what path led to when the operation began and the rank of
\* the operation among those begun
ProcIdle == [op |-> "none", pc |-> "idle", fd |-> 0, held |-> 0,
             exc |-> "", got |-> <<>>, seen |-> [ex |-> FALSE, data |-> <<>>],
             rank |-> 0]

LockIdle ==
  /\ fs = [kind |-> "off", path |-> 0, bak |-> 0, data |-> [i \in Inodes |-> <<>>]]
  /\ lockOwner = 0
  /\ proc = [p \in Procs |-> ProcIdle]

\* path exists and holds a complete document; fcntl.lockf locks (POSIX) are
\* the process's, msvcrt.locking locks (Windows) are the file handle's
LockInit ==
  /\ platform \in {"posix", "windows"}
  /\ fs \in {[kind |-> kd, path |-> 1, bak |-> 0,
              data |-> [i \in Inodes |-> IF i = 1 THEN Old ELSE <<>>]] :
             kd \in {"experiments.yml", ".project.yml"}}
  /\ lockOwner = 0
  /\ proc = [p \in Procs |-> ProcIdle]

\* a save that removes the file instead of renaming it
renamedNoBackup(f) == [f EXCEPT !.path = 0]

\* os.rename(path, path + '~'), for an existing path: the inode path~ named
\* before is gone, unless a process holds it open
renamed(f) ==
  [f EXCEPT !.bak = f.path, !.path = 0,
            !.data = [i \in Inodes |->
                        IF i = f.bak /\ i # 0 /\ \A p \in Procs : proc[p].fd # i
                          THEN <<>> ELSE f.data[i]]]

\* a lock that never makes a process wait
canAcquireNoWait(p) == TRUE

\* lock.acquire() of a fasteners.InterProcessLock on path.lck
canAcquire(p) == lockOwner = 0 \/ (lockOwner = p /\ platform = "posix")

\* lock.release(): the unlock drops the lock the process has on the file
released(p) == IF lockOwner = p THEN 0 ELSE lockOwner

\* a process begins safe_load(path), safe_dump(New(p), path), the write of
\* the master index of ExperimentsConfig.save (lines 408-414) or the write of
\* a project file of ProjectsConfig.save (lines 456-458)
Start(p, op) ==
  /\ proc[p].pc = "idle"
  /\ op = "exp_save" => fs.kind = "experiments.yml"
  /\ op = "proj_save" => fs.kind = ".project.yml"
  /\ proc' = [proc EXCEPT ![p].op = op, ![p].seen = File(fs.path),
                ![p].rank = 1 + Cardinality({q \in Procs : proc[q].pc # "idle"}),
                ![p].pc = CASE op = "safe_load" -> "l_acquire"
                            [] op = "safe_dump" -> "d_exists"
                            [] op = "exp_save"  -> "s_acquire"
                            [] op = "proj_save" -> "ps_exists"]
  /\ UNCHANGED <<platform, fs, lockOwner, normVars, regVars>>

\* line 456: if osp.exists(fname)
ProjExists(p) ==
  /\ proc[p].pc = "ps_exists"
  /\ proc' = [proc EXCEPT ![p].pc = IF fs.path # 0 THEN "ps_rename" ELSE "d_exists"]
  /\ UNCHANGED <<platform, fs, lockOwner, normVars, regVars>>

\* line 457: os.rename(fname, fname + '~'), FileNotFoundError if fname is gone
ProjRename(p) ==
  /\ proc[p].pc = "ps_rename"
  /\ IF fs.path # 0
       THEN /\ fs' = renamed(fs)
            /\ proc' = [proc EXCEPT ![p].pc = "d_exists"]
       ELSE /\ proc' = [proc EXCEPT ![p].pc = "done", ![p].exc = "FileNotFoundError"]
            /\ UNCHANGED fs
  /\ UNCHANGED <<platform, lockOwner, normVars, regVars>>

\* lines 410-411: lock = InterProcessLock(exp_file + '.lck'); lock.acquire()
SaveAcquire(p) ==
  /\ proc[p].pc = "s_acquire"
  /\ canAcquire(p)
  /\ lockOwner' = p
  /\ proc' = [proc EXCEPT ![p].pc = "d_exists", ![p].held = @ + 1]
  /\ UNCHANGED <<platform, fs, normVars, regVars>>

\* line 203: if osp.exists(fname)
DumpExists(p) ==
  /\ proc[p].pc = "d_exists"
  /\ proc' = [proc EXCEPT ![p].pc = IF fs.path # 0 THEN "d_rename" ELSE "d_acquire"]
  /\ UNCHANGED <<platform, fs, lockOwner, normVars, regVars>>

\* line 204: os.rename(fname, fname + '~'), FileNotFoundError if fname is
\* gone; the error leaves safe_dump, and ExperimentsConfig.save with it
DumpRename(p) ==
  /\ proc[p].pc = "d_rename"
  /\ IF fs.path # 0
       THEN /\ fs' = renamed(fs)
            /\ proc' = [proc EXCEPT ![p].pc = "d_acquire"]
       ELSE /\ proc' = [proc EXCEPT ![p].pc = "done", ![p].exc = "FileNotFoundError"]
            /\ UNCHANGED fs
  /\ UNCHANGED <<platform, lockOwner, normVars, regVars>>

\* lines 205-206: lock = InterProcessLock(fname + '.lck'); lock.acquire()
DumpAcquire(p) ==
  /\ proc[p].pc = "d_acquire"
  /\ canAcquire(p)
  /\ lockOwner' = p
  /\ proc' = [proc EXCEPT ![p].pc = "d_open", ![p].held = @ + 1]
  /\ UNCHANGED <<platform, fs, normVars, regVars>>

\* line 208: open(fname, 'w') truncates the file or creates it; it may fail
DumpOpen(p) ==
  /\ proc[p].pc = "d_open"
  /\ \/ /\ fs.path # 0
        /\ fs' = [fs EXCEPT !.data[fs.path] = <<>>]
        /\ proc' = [proc EXCEPT ![p].pc = "d_write", ![p].fd = fs.path]
     \/ /\ fs.path = 0
        /\ LET n == CHOOSE i \in Inodes \ InUse : \A j \in Inodes \ InUse : i <= j
           IN  /\ fs' = [fs EXCEPT !.path = n, !.data[n] = <<>>]
               /\ proc' = [proc EXCEPT ![p].pc = "d_write", ![p].fd = n]
     \/ /\ proc' = [proc EXCEPT ![p].pc = "d_finally", ![p].exc = "IOError"]
        /\ UNCHANGED fs
  /\ UNCHANGED <<platform, lockOwner, normVars, regVars>>

\* line 209: ordered_yaml_dump(d, f), one write at a time; a write may fail.
\* Leaving the with block closes the file.
DumpWrite(p) ==
  /\ proc[p].pc = "d_write"
  /\ LET f == proc[p].fd
         n == Len(fs.data[f])
     IN  \/ /\ n < DocLen
            /\ fs' = [fs EXCEPT !.data[f] = Append(@, New(p)[n + 1])]
            /\ UNCHANGED proc
         \/ /\ n >= DocLen
            /\ proc' = [proc EXCEPT ![p].pc = "d_finally", ![p].fd = 0]
            /\ UNCHANGED fs
         \/ /\ n < DocLen
            /\ proc' = [proc EXCEPT ![p].pc = "d_finally", ![p].fd = 0,
                                    ![p].exc = "IOError"]
            /\ UNCHANGED fs
  /\ UNCHANGED <<platform, lockOwner, normVars, regVars>>

\* lines 210-213: finally: lock.release(); safe_dump returns or raises.  In
\* ExperimentsConfig.save the return leads to line 414 and the error leaves
\* save.
DumpFinally(p) ==
  /\ proc[p].pc = "d_finally"
  /\ lockOwner' = released(p)
  /\ proc' = [proc EXCEPT ![p].held = @ - 1,
                ![p].pc = IF proc[p].op = "exp_save" /\ proc[p].exc = ""
                            THEN "s_release" ELSE "done"]
  /\ UNCHANGED <<platform, fs, normVars, regVars>>

\* line 414: lock.release()
SaveRelease(p) ==
  /\ proc[p].pc = "s_release"
  /\ lockOwner' = released(p)
  /\ proc' = [proc EXCEPT ![p].held = @ - 1, ![p].pc = "done"]
  /\ UNCHANGED <<platform, fs, normVars, regVars>>

\* lines 178-179: lock = InterProcessLock(fname + '.lck'); lock.acquire()
LoadAcquire(p) ==
  /\ proc[p].pc = "l_acquire"
  /\ canAcquire(p)
  /\ lockOwner' = p
  /\ proc' = [proc EXCEPT ![p].pc = "l_open", ![p].held = @ + 1]
  /\ UNCHANGED <<platform, fs, normVars, regVars>>

\* line 181: open(fname), FileNotFoundError if fname is missing
LoadOpen(p) ==
  /\ proc[p].pc = "l_open"
  /\ proc' = IF fs.path # 0
               THEN [proc EXCEPT ![p].pc = "l_read", ![p].fd = fs.path]
               ELSE [proc EXCEPT ![p].pc = "l_finally", ![p].exc = "FileNotFoundError"]
  /\ UNCHANGED <<platform, fs, lockOwner, normVars, regVars>>

\* line 182: ordered_yaml_load(f) reads what the file holds
LoadRead(p) ==
  /\ proc[p].pc = "l_read"
  /\ proc' = [proc EXCEPT ![p].pc = "l_finally", ![p].fd = 0,
                          ![p].got = fs.data[proc[p].fd]]
  /\ UNCHANGED <<platform, fs, lockOwner, normVars, regVars>>

\* lines 183-186: finally: lock.release(); safe_load returns or raises
LoadFinally(p) ==
  /\ proc[p].pc = "l_finally"
  /\ lockOwner' = released(p)
  /\ proc' = [proc EXCEPT ![p].held = @ - 1, ![p].pc = "done"]
  /\ UNCHANGED <<platform, fs, normVars, regVars>>

\* the process dies in the middle of its operation: its open file is closed
\* and the operating system drops its lock
Crash(p) ==
  /\ proc[p].pc \notin {"idle", "done", "crashed"}
  /\ lockOwner' = released(p)
  /\ proc' = [proc EXCEPT ![p].pc = "crashed", ![p].fd = 0]
  /\ UNCHANGED <<platform, fs, normVars, regVars>>

Ops == {"safe_load", "safe_dump", "exp_save", "proj_save"}

\* a step of an operation under way
Run(p) ==
  \/ ProjExists(p) \/ ProjRename(p)
  \/ SaveAcquire(p) \/ SaveRelease(p)
  \/ DumpExists(p) \/ DumpRename(p) \/ DumpAcquire(p) \/ DumpOpen(p)
  \/ DumpWrite(p) \/ DumpFinally(p)
  \/ LoadAcquire(p) \/ LoadOpen(p) \/ LoadRead(p) \/ LoadFinally(p)


-----------------------------------------------------------------------------
(* The files of the configuration, for one process.  disk.pindex is        *)
(* projects.yml, disk.pfiles[r] is r/.project/.project.yml, disk.index is  *)
(* experiments.yml and disk.files[r] holds the experiment files            *)
(* r/.project/<name>.yml, by name; disk.globals is globals.yml.            *)

\* the project names and the root directory of each: "/p" and "/q"
ProjNames == {"P1", "P2"}
RootOfName(n) == IF n = "P1" THEN <<"", "p">> ELSE <<"", "q">>
Roots == {RootOfName(n) : n \in ProjNames}

\* a missing file, and a file holding v
NoFile == [ex |-> FALSE, v |-> <<>>]
FileOf(v) == [ex |-> TRUE, v |-> v]

\* the Project Record of project n
ProjDoc(n) == <<[k |-> "root", t |-> "str", v |-> RootOfName(n)]>>

\* a configuration directory before the first run
EmptyDisk ==
  [pindex |-> [ex |-> FALSE, v |-> [t |-> "map", v |-> <<>>]],
   pfiles |-> [r \in Roots |-> NoFile],
   index  |-> NoFile,
   files  |-> [r \in Roots |-> <<>>],
   globals |-> NoFile]

-----------------------------------------------------------------------------
(* The Projects Registry *)

\* ProjectsConfig.__init__(conf_dir): projects.yml is read if it exists, and
\* every project file it names is loaded; a missing project file, or a
\* projects.yml that holds no mapping, raises, and no registry is made
ProjConstruct ==
  /\ last.op # "hung"
  /\ LET pp == IF disk.pindex.ex THEN disk.pindex.v ELSE [t |-> "map", v |-> <<>>]
         ok == /\ pp.t = "map"
               /\ \A i \in 1..Len(pp.v) : disk.pfiles[pp.v[i].v].ex
     IN  /\ project_paths' = IF ok THEN pp ELSE project_paths
         /\ projects' = IF ok THEN [i \in 1..Len(pp.v) |->
                                      [k |-> pp.v[i].k, t |-> "map",
                                       v |-> disk.pfiles[pp.v[i].v].v]]
                        ELSE projects
         /\ last' = [op |-> "proj_init", ok |-> ok]
  /\ UNCHANGED <<exps, pmap, disk, normVars, lockVars>>

\* projects[name] = val: a Project Record, or a value that is no Document
\* (here the root path as a string)
SetProject(n, tag) ==
  /\ last.op # "hung"
  /\ projects' = Put(projects, [k |-> n, t |-> tag,
                                v |-> IF tag = "map" THEN ProjDoc(n) ELSE RootOfName(n)])
  /\ last' = [op |-> "proj_set", ok |-> TRUE]
  /\ UNCHANGED <<project_paths, exps, pmap, disk, normVars, lockVars>>

\* del projects[name]
DelProject(n) ==
  /\ last.op # "hung"
  /\ Has(projects, n)
  /\ projects' = Del(projects, n)
  /\ last' = [op |-> "proj_del", ok |-> TRUE]
  /\ UNCHANGED <<project_paths, exps, pmap, disk, normVars, lockVars>>

\* line 461: project_paths = self.project_paths[project], which replaces the
\* index built so far by the root path of the project; it raises when the
\* registry knows no path of the project
keptPath(acc, n) ==
  IF project_paths.t = "map" /\ Has(project_paths.v, n)
    THEN [ok |-> TRUE, acc |-> [t |-> "str", v |-> Entry(project_paths.v, n).v]]
  ELSE [ok |-> FALSE, acc |-> acc]

\* the loop of ProjectsConfig.save (lines 450-461) from entry i on: acc is
\* the local project_paths, pf the project files; ok is FALSE when it raises
RECURSIVE projSaveLoop(_, _, _)
projSaveLoop(i, acc, pf) ==
  IF i > Len(projects) THEN [ok |-> TRUE, acc |-> acc, pf |-> pf]
  ELSE LET e == projects[i] IN
    IF e.t = "map"
      THEN IF ~Has(e.v, "root") THEN [ok |-> FALSE, acc |-> acc, pf |-> pf]
           ELSE LET root == Entry(e.v, "root").v
                    npf  == [pf EXCEPT ![root] = FileOf(e.v)]
                IN  IF acc.t # "map" THEN [ok |-> FALSE, acc |-> acc, pf |-> npf]
                    ELSE projSaveLoop(i + 1,
                           [t |-> "map", v |-> Put(acc.v, [k |-> e.k, t |-> "str", v |-> root])],
                           npf)
    ELSE LET r == keptPath(acc, e.k)
         IN  IF r.ok THEN projSaveLoop(i + 1, r.acc, pf)
             ELSE [ok |-> FALSE, acc |-> acc, pf |-> pf]

\* ProjectsConfig.save()
ProjSave ==
  /\ last.op # "hung"
  /\ LET r == projSaveLoop(1, [t |-> "map", v |-> <<>>], disk.pfiles)
     IN  /\ disk' = [disk EXCEPT !.pfiles = r.pf,
                                 !.pindex = IF r.ok THEN FileOf(r.acc) ELSE @]
         /\ project_paths' = IF r.ok THEN r.acc ELSE project_paths
         /\ last' = [op |-> "proj_save", ok |-> r.ok,
                     known |-> \A i \in 1..Len(projects) :
                                 projects[i].t # "map" =>
                                   /\ project_paths.t = "map"
                                   /\ Has(project_paths.v, projects[i].k),
                     paths |-> project_paths]
  /\ UNCHANGED <<projects, exps, pmap, normVars, lockVars>>

-----------------------------------------------------------------------------
(* The Experiments Registry.  An entry of exps is a reference ("ref", the   *)
(* path of an experiment file, as its directory's root and its name), a     *)
(* Document ("doc"), an Archive ("arch", with its project and time) or None *)
(* ("null").                                                                *)

ExpNames == {"e1"}

\* osp.join(config_path, exp + '.yml')
RefTo(root, n) == [root |-> root, name |-> n]

\* safe_load(fname) of an experiment file: the file, NoFile when it is missing
expFile(ref) ==
  IF Has(disk.files[ref.root], ref.name)
    THEN FileOf(Entry(disk.files[ref.root], ref.name).v)
  ELSE NoFile

\* the project of a value of the registry, NoName if it has none
projectOf(e) ==
  IF e.t = "doc" /\ Has(e.v, "project") THEN Entry(e.v, "project").v
  ELSE IF e.t = "arch" THEN e.v.project
  ELSE NoName

\* a read that returns the loaded Document and stores nothing
\* lines 293-295: the loaded Document is stored under key before fix_paths
\* works on it in place; r is the outcome of fix_paths
loadedAs(E, key, r) ==
  [ok |-> r.ok, E |-> Put(E, [k |-> key, t |-> "doc", v |-> r.d]), loaded |-> TRUE]

\* ExperimentsConfig.__getitem__(attr) on the registry E, for a key of E;
\* ioerr tells whether safe_load meets an I/O error.  E as it is left, and
\* whether the read returned.
getitem(E, key, ioerr) ==
  LET e == Entry(E, key) IN
  IF e.t \in {"doc", "arch"} THEN [ok |-> TRUE, E |-> E, loaded |-> FALSE]
  ELSE IF e.t = "null" \/ ioerr \/ ~expFile(e.v).ex
    THEN [ok |-> FALSE, E |-> E, loaded |-> FALSE]
  ELSE loadedAs(E, key, fix_paths(expFile(e.v).v, NoPath, NoName))

\* self[key] for every key from the i-th on, until one raises: the loop of
\* load(), and what dict(self) does in save(); the read of the failAt-th key
\* meets an I/O error
RECURSIVE getAll(_, _, _)
RECURSIVE getNext(_, _, _)
getAll(E, i, failAt) ==
  IF i > Len(E) THEN [ok |-> TRUE, E |-> E]
  ELSE getNext(getitem(E, E[i].k, i = failAt), i, failAt)
getNext(r, i, failAt) ==
  IF r.ok THEN getAll(r.E, i + 1, failAt) ELSE [ok |-> FALSE, E |-> r.E]

\* an update that appends the name without the test `key not in`
mapItemUnchecked(key, n, pm) ==
  IF n # NoName THEN [pm EXCEPT ![n] = Append(@, key)]
  ELSE pm

\* the body of the loop of project_map: key is appended to the list of
\* project n unless it is there; n is NoName for a value that is neither a
\* Document nor an Archive
mapItem(key, n, pm) ==
  IF n # NoName /\ key \notin Range(pm[n]) THEN [pm EXCEPT ![n] = Append(@, key)]
  ELSE pm

\* one pass of the loop of project_map over the items of E, from the i-th on
RECURSIVE mapItems(_, _, _)
mapItems(E, i, pm) ==
  IF i > Len(E) THEN pm
  ELSE mapItems(E, i + 1, mapItem(E[i].k, projectOf(E[i]), pm))

\* the property project_map (lines 238-248)
project_map(E, pm) == mapItems(E, 1, pm)

\* __setitem__ that stores the value without a look at project_map
setitemUnfolded(E, pm, e) == [E |-> Put(E, e), pm |-> pm]

\* ExperimentsConfig.__setitem__(key, val) on the registry E with index pm
setitem(E, pm, e) ==
  [E |-> Put(E, e), pm |-> IF e.t = "arch" THEN project_map(E, pm) ELSE pm]

\* lines 266-270: the file of experiment exp found in the directory of
\* project pn
scanFile(pn, root, exp, acc) ==
  [ret |-> IF Has(acc.ret, exp) /\ Entry(acc.ret, exp).t = "arch" THEN acc.ret
           ELSE Put(acc.ret, [k |-> exp, t |-> "ref", v |-> RefTo(root, exp)]),
   pm  |-> IF exp \in Range(acc.pm[pn]) THEN acc.pm
           ELSE [acc.pm EXCEPT ![pn] = Append(@, exp)]]

\* the scan of one project directory in exp_files (lines 263-270), from the
\* i-th file on
RECURSIVE scanDir(_, _, _, _)
scanDir(pn, root, i, acc) ==
  LET fl == disk.files[root] IN
  IF i > Len(fl) THEN acc
  ELSE scanDir(pn, root, i + 1, scanFile(pn, root, fl[i].k, acc))

\* the loop of exp_files over the projects (lines 258-270), from the i-th on
RECURSIVE scanProjects(_, _)
scanProjects(i, acc) ==
  IF i > Len(projects) THEN acc
  ELSE scanProjects(i + 1,
         scanDir(projects[i].k, Entry(projects[i].v, "root").v, 1, acc))

\* the property exp_files: the master index, then the project directories
exp_files(pm) ==
  scanProjects(1, [ret |-> IF disk.index.ex THEN disk.index.v ELSE <<>>, pm |-> pm])

\* the loop of __init__ (lines 284-285): self[key] = val for the items of
\* ret, from the i-th on
RECURSIVE setAll(_, _, _)
setAll(ret, i, acc) ==
  IF i > Len(ret) THEN acc
  ELSE setAll(ret, i + 1, setitem(acc.E, acc.pm, ret[i]))

\* the loop of ExperimentsConfig.save over the Documents (lines 400-407),
\* from the i-th entry on: the registry (rel_paths works in place) and the
\* experiment files; ok is FALSE when the loop raises.  saveDoc is its body
\* for a Document whose project has the root directory root, and r what
\* rel_paths made of it
RECURSIVE saveDocs(_, _, _)
RECURSIVE saveDoc(_, _, _, _, _)
saveDocs(E, i, files) ==
  IF i > Len(E) THEN [ok |-> TRUE, E |-> E, files |-> files]
  ELSE IF E[i].t # "doc" THEN saveDocs(E, i + 1, files)
  ELSE IF ~Has(E[i].v, "project") \/ rootOf(projectOf(E[i])) = NoPath
    THEN [ok |-> FALSE, E |-> E, files |-> files]
  ELSE saveDoc(E, i, files, rootOf(projectOf(E[i])), rel_paths(E[i].v, NoPath, NoName))
saveDoc(E, i, files, root, r) ==
  IF ~r.ok THEN [ok |-> FALSE, E |-> [E EXCEPT ![i].v = r.d], files |-> files]
  ELSE saveDocs([E EXCEPT ![i].v = r.d], i + 1,
                [files EXCEPT ![root] = Put(@, [k |-> E[i].k, t |-> "doc", v |-> r.d])])

\* the names of the Documents that the loop of ExperimentsConfig.save
\* writes, in the order of writing, from the i-th entry of E on: it ends at
\* the Document at which the loop raises
RECURSIVE docLog(_, _)
docLog(E, i) ==
  IF i > Len(E) THEN <<>>
  ELSE IF E[i].t # "doc" THEN docLog(E, i + 1)
  ELSE IF ~Has(E[i].v, "project") \/ rootOf(projectOf(E[i])) = NoPath
            \/ ~rel_paths(E[i].v, NoPath, NoName).ok THEN <<>>
  ELSE <<E[i].k>> \o docLog(E, i + 1)

\* a master index that forgets the Archive markers
masterIndexOfNulls(E) ==
  [i \in 1..Len(E) |-> [k |-> E[i].k, t |-> "null", v |-> NoName]]

\* the master index save() writes (lines 412-413)
masterIndex(E) ==
  [i \in 1..Len(E) |->
     IF E[i].t = "arch" THEN E[i] ELSE [k |-> E[i].k, t |-> "null", v |-> NoName]]

\* the Documents assigned to experiment names: a project and a path-like
\* key holding a relative path, an absolute path below the project's root or
\* an absolute path outside of it.  Every Document carries its project.
ExpDoc(n, x) == <<[k |-> "project", t |-> "name", v |-> n],
                  [k |-> "outdir", t |-> "str", v |-> x]>>
ExpPaths(n) == {<<"out">>, RootOfName(n) \o <<"out">>, <<"", "x">>}
InputExpDocs == UNION {{ExpDoc(n, x) : x \in ExpPaths(n)} : n \in ProjNames}

\* of these, the Documents whose path is relative
ConfDocs == {ExpDoc(n, <<"out">>) : n \in ProjNames}

\* the Archive markers assigned to experiment names
InputArchives == {[project |-> n, time |-> "t"] : n \in ProjNames}

\* what the registry held under key: its type and its project
Was(key) ==
  IF Has(exps, key)
    THEN [t |-> Entry(exps, key).t, project |-> projectOf(Entry(exps, key))]
  ELSE [t |-> "none", project |-> NoName]

\* last.trip: the registry that save() was called on, kept while a fresh
\* registry is constructed right after it and read
NoTrip == <<>>

\* the registry and the index that an assignment, or __init__, leaves: r
Stored(r) ==
  /\ exps' = r.E
  /\ pmap' = r.pm

\* the read of key that left r; last.again tells that it follows reads of
\* the same name, the first of which loaded the file
Got(key, r) ==
  /\ exps' = r.E
  /\ last' = [op |-> "getitem", ok |-> r.ok, key |-> key, was |-> Was(key),
              loaded |-> r.loaded,
              again |-> /\ last.op = "getitem" /\ last.key = key /\ last.ok
                        /\ (last.loaded \/ last.again),
              trip |-> IF last.op = "init" THEN last.trip ELSE NoTrip]

\* experiments[key]
GetItem(key, ioerr) ==
  /\ last.op # "hung"
  /\ Has(exps, key)
  /\ Got(key, getitem(exps, key, ioerr))
  /\ UNCHANGED <<projects, project_paths, pmap, disk, normVars, lockVars>>

\* experiments[key] = val, for a Document or an Archive
SetItem(key, tag, val) ==
  /\ last.op # "hung"
  /\ Stored(setitem(exps, pmap, [k |-> key, t |-> tag, v |-> val]))
  /\ last' = [op |-> "setitem", ok |-> TRUE, key |-> key, was |-> Was(key),
              trip |-> NoTrip]
  /\ UNCHANGED <<projects, project_paths, disk, normVars, lockVars>>

\* del experiments[key]
DelItem(key) ==
  /\ last.op # "hung"
  /\ Has(exps, key)
  /\ exps' = Del(exps, key)
  /\ last' = [op |-> "delitem", ok |-> TRUE, key |-> key, was |-> Was(key),
              trip |-> NoTrip]
  /\ UNCHANGED <<projects, project_paths, pmap, disk, normVars, lockVars>>

\* experiments.project_map
ProjectMap ==
  /\ last.op # "hung"
  /\ pmap' = project_map(exps, pmap)
  /\ last' = [op |-> "project_map", ok |-> TRUE]
  /\ UNCHANGED <<projects, project_paths, exps, disk, normVars, lockVars>>

\* load() whose reads left r
Loaded(r) ==
  /\ exps' = r.E
  /\ last' = [op |-> "load", ok |-> r.ok]

\* experiments.load()
Load(failAt) ==
  /\ last.op # "hung"
  /\ Loaded(getAll(exps, 1, failAt))
  /\ UNCHANGED <<projects, project_paths, pmap, disk, normVars, lockVars>>

\* lines 408-414 of save(), r being the outcome of the loop over the
\* Documents: the master index is written under the lock of
\* experiments.yml.lck, which safe_dump requests again; where a lock is the
\* file handle's, the second request is never granted
SaveIndex(r, docs) ==
  /\ exps' = r.E
  /\ disk' = [disk EXCEPT !.files = r.files,
                          !.index = IF r.ok /\ platform = "posix"
                                      THEN FileOf(masterIndex(r.E)) ELSE @]
  /\ last' = [op |-> IF r.ok /\ platform = "windows" THEN "hung" ELSE "save",
              ok |-> r.ok /\ platform = "posix",
              log |-> IF r.ok /\ platform = "posix"
                        THEN Append(docs, "experiments.yml") ELSE docs,
              trip |-> IF r.ok /\ platform = "posix" THEN exps ELSE NoTrip]

\* save() behind dict(self), whose outcome is g
SaveLoaded(g) ==
  IF g.ok THEN SaveIndex(saveDocs(g.E, 1, disk.files), docLog(g.E, 1))
  ELSE /\ exps' = g.E
       /\ last' = [op |-> "save", ok |-> FALSE, log |-> <<>>, trip |-> NoTrip]
       /\ UNCHANGED disk

\* experiments.save(): dict(self) reads every key, the Documents are
\* written, then the master index
Save(failAt) ==
  /\ last.op # "hung"
  /\ SaveLoaded(getAll(exps, 1, failAt))
  /\ UNCHANGED <<projects, project_paths, pmap, normVars, lockVars>>

\* lines 284-285 for the outcome f of exp_files
setFiles(f) == setAll(f.ret, 1, [E |-> <<>>, pm |-> f.pm])

\* ExperimentsConfig(projects): a fresh registry from the files
Construct ==
  /\ last.op # "hung"
  /\ IF projects = <<>> THEN Stored([E |-> <<>>, pm |-> [n \in ProjNames |-> <<>>]])
     ELSE Stored(setFiles(exp_files([n \in ProjNames |-> <<>>])))
  /\ last' = [op |-> "init", ok |-> TRUE,
              trip |-> IF last.op = "save" /\ last.ok THEN last.trip ELSE NoTrip]
  /\ UNCHANGED <<projects, project_paths, disk, normVars, lockVars>>

\* two projects registered and saved, no experiment yet
RegInit ==
  /\ projects = [i \in 1..2 |-> [k |-> IF i = 1 THEN "P1" ELSE "P2", t |-> "map",
                                 v |-> ProjDoc(IF i = 1 THEN "P1" ELSE "P2")]]
  /\ project_paths = [t |-> "map",
                      v |-> [i \in 1..2 |-> [k |-> IF i = 1 THEN "P1" ELSE "P2", t |-> "str",
                                             v |-> RootOfName(IF i = 1 THEN "P1" ELSE "P2")]]]
  /\ exps = <<>>
  /\ pmap = [n \in ProjNames |-> <<>>]
  /\ disk = [EmptyDisk EXCEPT !.pindex = FileOf(project_paths),
                              !.pfiles = [r \in Roots |-> FileOf(<<[k |-> "root", t |-> "str", v |-> r]>>)]]
  /\ last = [op |-> "none"]

-----------------------------------------------------------------------------
(* Specifications *)

RegIdle ==
  /\ projects = <<>>
  /\ project_paths = [t |-> "map", v |-> <<>>]
  /\ exps = <<>>
  /\ pmap = [n \in ProjNames |-> <<>>]
  /\ disk = EmptyDisk
  /\ last = [op |-> "none"]

\* the normalizer alone
NextNorm == NormFix \/ NormFixAgain \/ NormRel \/ NormRelOnly
InitNorm == NormInit /\ platform = "posix" /\ LockIdle /\ RegIdle
SpecNorm == InitNorm /\ [][NextNorm]_vars

\* two processes on one file, no crash
NextLock == \E p \in Procs : (\E op \in Ops : Start(p, op)) \/ Run(p)
InitLock == norm = NormIdle /\ LockInit /\ RegIdle
SpecLock == InitLock /\ [][NextLock]_vars

\* one process at a time on one file: a process begins when no other is in
\* the middle of an operation, and may crash at any step
StartAlone(p, op) ==
  /\ \A q \in Procs \ {p} : proc[q].pc \in {"idle", "done", "crashed"}
  /\ Start(p, op)

NextSolo ==
  \E p \in Procs : (\E op \in Ops : StartAlone(p, op)) \/ Run(p) \/ Crash(p)
SpecSolo == InitLock /\ [][NextSolo]_vars


-----------------------------------------------------------------------------
(* Claims on the normalizer *)

\* the path strings under the path-like keys of d, at any depth
RECURSIVE PathStrings(_)
PathStrings(d) ==
  UNION {CASE d[i].t = "map" -> PathStrings(d[i].v)
           [] d[i].k \in paths /\ d[i].t = "str" -> {d[i].v}
           [] d[i].k \in paths /\ d[i].t = "list" -> Range(d[i].v)
           [] OTHER -> {} : i \in 1..Len(d)}

\* a relative path string in normal form
RelNormal(x) == ~isabs(x) /\ normpath(x) = x

\* a relative path string in normal form that does not lead out of the
\* directory it is taken from
Inside(x) == RelNormal(x) /\ Head(x) # ".."

\* C9, as claimed: for every Document d and root r, rel_paths(fix_paths(d,
\* r), r) equals d and fix_paths(fix_paths(d, r), r) equals fix_paths(d, r).
C9_AsClaimed ==
  /\ norm.stage = "rel" => norm.rel.ok /\ norm.rel.d = norm.d
  /\ norm.stage = "fixed2" => norm.fix2.ok /\ norm.fix2.d = norm.fix.d

\* C9, amended: for an absolute root r, fix_paths is idempotent for every
\* Document, and rel_paths undoes fix_paths for the Documents whose path-like
\* values are relative path strings in normal form that do not lead out of
\* r (no leading '..').
C9_RoundTrip ==
  /\ norm.stage = "rel" /\ (\A x \in PathStrings(norm.d) : Inside(x))
       => norm.rel.ok /\ norm.rel.d = norm.d
  /\ norm.stage = "fixed2" => norm.fix2.ok /\ norm.fix2.d = norm.fix.d

\* a Document with a relative path string went through fix_paths, which made
\* it absolute, and rel_paths
C9_Witness ==
  /\ norm.stage = "rel"
  /\ PathStrings(norm.d) # {} /\ \A x \in PathStrings(norm.d) : Inside(x)
  /\ norm.fix.d # norm.d

\* the Document d holds an empty sequence under a path-like key, at any depth
RECURSIVE HasEmptySeq(_)
HasEmptySeq(d) ==
  \E i \in 1..Len(d) :
    IF d[i].t = "map" THEN HasEmptySeq(d[i].v)
    ELSE d[i].k \in paths /\ d[i].t = "list" /\ d[i].v = <<>>

\* out is d with every empty sequence under a path-like key as it was
RECURSIVE EmptyKept(_, _)
EmptyKept(d, out) ==
  /\ Len(out) = Len(d)
  /\ \A i \in 1..Len(d) :
       IF d[i].t = "map"
         THEN out[i].k = d[i].k /\ out[i].t = "map" /\ EmptyKept(d[i].v, out[i].v)
       ELSE d[i].k \in paths /\ d[i].t = "list" /\ d[i].v = <<>> => out[i] = d[i]

-----------------------------------------------------------------------------
(* Claims on the locked file I/O *)

\* the processes have all run safe_dump to its end, none hit an I/O error
BothDumped ==
  \A p \in Procs : /\ proc[p].op = "safe_dump"
                   /\ proc[p].pc = "done"
                   /\ proc[p].exc # "IOError"

TouchesPath == {"d_exists", "d_rename", "d_open", "d_write", "l_open", "l_read"}

\* C2: every filesystem step of safe_load and safe_dump that touches path is
\* executed only while the calling process holds the lock of path.lck.
C2_LockedSteps ==
  \A p \in Procs :
    proc[p].op \in {"safe_load", "safe_dump"} /\ proc[p].pc \in TouchesPath
      => lockOwner = p

\* C3: when safe_load, safe_dump or ExperimentsConfig.save has returned or
\* raised, the process holds none of the locks it acquired in the call.
C3_LocksReleased ==
  \A p \in Procs :
    proc[p].pc = "done" => proc[p].held = 0 /\ lockOwner # p

\* the operation of p is the last one begun
Latest(p) == \A q \in Procs : proc[q].rank <= proc[p].rank

\* C16: ExperimentsConfig.save run by one process, no other process being
\* at work, never stands at a lock.acquire() that cannot return because the
\* lock is held by that same process.
C16_SaveNeverWaitsForItself ==
  \A p \in Procs :
    ( /\ proc[p].op = "exp_save"
      /\ proc[p].pc \in {"s_acquire", "d_acquire"}
      /\ lockOwner = p )
    => canAcquire(p)

\* C10: at every step of a safe_dump or of the write of a project file by
\* ProjectsConfig.save onto an existing file, a crash included, the complete
\* content path held before the call is in path or in path~; after a
\* completed save path~ holds that content and path the new document.
C10_BackupKept ==
  \A p \in Procs :
    proc[p].op \in {"safe_dump", "proj_save"} /\ proc[p].seen.ex /\ Latest(p) =>
      /\ File(fs.path) = proc[p].seen \/ File(fs.bak) = proc[p].seen
      /\ proc[p].pc = "done" /\ proc[p].exc = "" =>
           File(fs.bak) = proc[p].seen /\ PathData = New(p)

\* a writer crashed between the rename and the end of its write: path is
\* missing or incomplete and path~ holds what path held before
C10_Witness ==
  \E p \in Procs :
    /\ proc[p].op \in {"safe_dump", "proj_save"}
    /\ proc[p].pc = "crashed"
    /\ Latest(p)
    /\ proc[p].seen.ex
    /\ fs.path # 0
    /\ File(fs.path) # proc[p].seen
    /\ File(fs.bak) = proc[p].seen

\* the Experiments Registry of one process
NextReg ==
  \/ \E key \in ExpNames, ioerr \in BOOLEAN : GetItem(key, ioerr)
  \/ \E key \in ExpNames, d \in InputExpDocs : SetItem(key, "doc", d)
  \/ \E key \in ExpNames, a \in InputArchives : SetItem(key, "arch", a)
  \/ \E key \in ExpNames : DelItem(key)
  \/ ProjectMap
  \/ \E failAt \in 0..Cardinality(ExpNames) : Load(failAt)
  \/ \E failAt \in 0..Cardinality(ExpNames) : Save(failAt)
  \/ Construct
  \/ \E n \in ProjNames : DelProject(n)
InitReg ==
  norm = NormIdle /\ platform \in {"posix", "windows"} /\ LockIdle /\ RegInit
SpecReg == InitReg /\ [][NextReg]_vars

\* the Experiments Registry with two names: assignments, save() and a new
\* registry made from the disk
SaveNames == {"e1", "e2"}
SaveDocs == {ExpDoc("P1", RootOfName("P1") \o <<"out">>)}
SaveArchives == {[project |-> "P2", time |-> "t"]}
NextSave ==
  \/ \E key \in SaveNames, d \in SaveDocs : SetItem(key, "doc", d)
  \/ \E key \in SaveNames, a \in SaveArchives : SetItem(key, "arch", a)
  \/ \E failAt \in 0..Cardinality(SaveNames) : Save(failAt)
  \/ Construct
InitSave ==
  norm = NormIdle /\ platform \in {"posix", "windows"} /\ LockIdle /\ RegInit
SpecSave == InitSave /\ [][NextSave]_vars

\* the Projects Registry on its own, from the first run on
NextProj ==
  \/ ProjConstruct
  \/ \E n \in ProjNames, tag \in {"map", "ref"} : SetProject(n, tag)
  \/ \E n \in ProjNames : DelProject(n)
  \/ ProjSave
InitProj == norm = NormIdle /\ platform = "posix" /\ LockIdle /\ RegIdle
SpecProj == InitProj /\ [][NextProj]_vars

-----------------------------------------------------------------------------
(* Claims on a load beside a save *)

\* C13: a safe_load that ran beside a safe_dump of another process on the
\* same existing path, the save meeting no I/O error, returned the complete
\* document the path held before or the complete new one; it did not fail and
\* saw no empty or partial file.
C13_LoadSerialized ==
  \A p \in Procs, q \in Procs :
    ( /\ proc[p].op = "safe_load" /\ proc[p].pc = "done"
      /\ proc[q].op = "safe_dump" /\ proc[q].exc # "IOError" )
    => /\ proc[p].exc = ""
       /\ proc[p].got \in {Old, New(q)}

-----------------------------------------------------------------------------
(* Claims on the Projects Registry *)

\* C5: ProjectsConfig.save on a registry holding any mix of Project Records
\* and unrealized entries whose root path is known does not fail, and the
\* written projects.yml maps every name of the registry to a root path, the
\* previously known one for each unrealized entry.
C5_IndexIsSuperset ==
  last.op = "proj_save" /\ last.known =>
    /\ last.ok
    /\ disk.pindex.ex /\ disk.pindex.v.t = "map"
    /\ \A i \in 1..Len(projects) :
         /\ Has(disk.pindex.v.v, projects[i].k)
         /\ projects[i].t # "map" =>
              Entry(disk.pindex.v.v, projects[i].k) = Entry(last.paths.v, projects[i].k)

-----------------------------------------------------------------------------
(* Claims on the Experiments Registry *)

\* the names of the registry whose value is a Document or an Archive of
\* project n
NamesOf(n) == {exps[i].k : i \in {j \in 1..Len(exps) : projectOf(exps[j]) = n}}

\* C4: once project_map has been accessed, the list of every project holds
\* exactly the names whose value is a Document or an Archive of that
\* project, whatever reads, assignments and deletions came before.
C4_IndexExact ==
  last.op = "project_map" =>
    \A n \in ProjNames : Range(pmap[n]) = NamesOf(n)

\* C6: a read of a reference that raises, in the load of the file or in
\* fix_paths, leaves the reference in the registry.
C6_FailedReadKeepsReference ==
  last.op = "getitem" /\ last.was.t = "ref" /\ ~last.ok =>
    Entry(exps, last.key).t = "ref"

\* the name of the i-th entry of the registry is in the list that
\* project_map gives for project n
Listed(i, n) == exps[i].k \in Range(project_map(exps, pmap)[n])

\* the index after the assignment of an Archive: the name is listed under
\* the Archive's project and under the project it had as a Document
ArchiveListed ==
  last.op = "setitem" /\ Entry(exps, last.key).t = "arch" =>
    \A i \in 1..Len(exps) : exps[i].k = last.key =>
      /\ Listed(i, exps[i].v.project)
      /\ last.was.t = "doc" => Listed(i, last.was.project)

\* the master index after save(): every Archive of the registry is in it
ArchiveSaved ==
  last.op = "save" /\ last.ok =>
    \A i \in 1..Len(exps) : exps[i].t = "arch" =>
      /\ Has(disk.index.v, exps[i].k)
      /\ Entry(disk.index.v, exps[i].k) = exps[i]

\* the registry constructed after save(): it holds every Archive that was
\* saved, as the Archive
ArchiveRestored ==
  \A i \in 1..Len(last.trip) : last.trip[i].t = "arch" =>
    /\ Has(exps, last.trip[i].k)
    /\ Entry(exps, last.trip[i].k) = last.trip[i]

OneSaved == Len(last.trip) = 1 /\ last.trip[1].t = "doc"

\* the i-th entry of the saved Document, with an absolute path
AsAbsolute(i) ==
  fixEntry(last.trip[1].v[i], rootOf(projectOf(last.trip[1])))

\* the i-th entry of the saved Document, after rel_paths and fix_paths
AsRoundTrip(i) ==
  fixEntry(relEntry(last.trip[1].v[i], rootOf(projectOf(last.trip[1]))).e,
           rootOf(projectOf(last.trip[1])))

\* the Document read from the fresh registry
ReadBack == Entry(exps, last.trip[1].k).v

\* the fresh registry holds the name as a reference
FreshIsPending ==
  last.op = "init" /\ OneSaved =>
    /\ Has(exps, last.trip[1].k)
    /\ Entry(exps, last.trip[1].k).t = "ref"

\* the name was read from the fresh registry, where it was a reference
FreshRead ==
  /\ last.op = "getitem" /\ last.ok /\ last.was.t = "ref"
  /\ OneSaved /\ last.key = last.trip[1].k

\* C8 as stated: a registry of one Document is saved and a fresh registry
\* constructed; the name is a reference there and, once read, the Document
\* that was saved, with its path-like values absolute.
C8_AsClaimed ==
  /\ FreshIsPending
  /\ FreshRead =>
       /\ Len(ReadBack) = Len(last.trip[1].v)
       /\ \A i \in 1..Len(ReadBack) : ReadBack[i] = AsAbsolute(i)

\* the path string x is absolute, in normal form and below root
Below(x, root) ==
  /\ isabs(x) /\ normpath(x) = x
  /\ Len(x) > Len(root) /\ SubSeq(x, 1, Len(root)) = root

\* no directory of a project other than that of the saved Document holds an
\* experiment file of its name
NoOtherFile ==
  \A n \in ProjNames \ {projectOf(last.trip[1])} :
    ~Has(disk.files[RootOfName(n)], last.trip[1].k)

\* C8: a registry of one Document is saved and a fresh registry
\* constructed; the name is a reference there and, once read while no other
\* project's directory holds a file of that name, the Document that was
\* saved after rel_paths and fix_paths; that is the saved Document with its
\* path-like values absolute where they are relative or absolute, in normal
\* form and below the root of its project.
C8_RoundTrip ==
  /\ FreshIsPending
  /\ FreshRead /\ NoOtherFile =>
       /\ Len(ReadBack) = Len(last.trip[1].v)
       /\ \A i \in 1..Len(ReadBack) :
            /\ ReadBack[i] = AsRoundTrip(i)
            /\ ( \/ last.trip[1].v[i].k \notin paths
                 \/ ~isabs(last.trip[1].v[i].v)
                 \/ Below(last.trip[1].v[i].v, rootOf(projectOf(last.trip[1]))) )
               => ReadBack[i] = AsAbsolute(i)

\* C8, its case: the Document read back from a fresh registry, with a path
\* below the root of its project
C8_Witness ==
  /\ FreshRead /\ NoOtherFile
  /\ \E i \in 1..Len(last.trip[1].v) :
       /\ last.trip[1].v[i].k \in paths
       /\ Below(last.trip[1].v[i].v, rootOf(projectOf(last.trip[1])))
       /\ ReadBack[i] = last.trip[1].v[i]

\* the path-like values of the i-th entry of the registry, a Document, are
\* absolute
AbsolutePaths(i) ==
  \A j \in 1..Len(exps[i].v) :
    exps[i].v[j].k \in paths /\ exps[i].v[j].t = "str" => isabs(exps[i].v[j].v)

\* a read of a reference whose file was loaded returns, and the registry
\* holds the Document with absolute paths under the name
ReadRealizes ==
  last.op = "getitem" /\ last.was.t = "ref" /\ last.loaded =>
    /\ last.ok
    /\ \A i \in 1..Len(exps) : exps[i].k = last.key =>
         exps[i].t = "doc" /\ AbsolutePaths(i)

\* a read of a Document or an Archive returns, loads no file and leaves the
\* registry as it is
ReadOfRealized ==
  last'.op = "getitem" /\ last'.was.t \in {"doc", "arch"} =>
    last'.ok /\ ~last'.loaded /\ exps' = exps

\* C14: a read of a reference loads the file, stores the Document with
\* absolute paths under the name and returns it; a read that follows reads
\* of the same name, and every read of a Document or an Archive, returns
\* the stored value, loads no file and changes nothing.
C14_ReadCaches ==
  /\ []ReadRealizes
  /\ [](last.op = "getitem" /\ last.again => last.ok /\ ~last.loaded)
  /\ [][ReadOfRealized]_vars

\* the names of the Documents of the registry, in its order
RECURSIVE DocNames(_)
DocNames(i) ==
  IF i > Len(exps) THEN <<>>
  ELSE IF exps[i].t = "doc" THEN <<exps[i].k>> \o DocNames(i + 1)
  ELSE DocNames(i + 1)

\* C15: when save() has returned, experiments.yml holds the names of the
\* registry in its order, each with its Archive marker or null; the file of
\* every Document holds that Document, and these files were written in
\* registry order before experiments.yml.
C15_IndexWritten ==
  last.op = "save" /\ last.ok =>
    /\ disk.index.ex
    /\ Len(disk.index.v) = Len(exps)
    /\ \A i \in 1..Len(exps) :
         /\ disk.index.v[i].k = exps[i].k
         /\ IF exps[i].t = "arch" THEN disk.index.v[i] = exps[i]
            ELSE disk.index.v[i].t = "null"
         /\ exps[i].t = "doc" =>
              /\ Has(disk.files[rootOf(projectOf(exps[i]))], exps[i].k)
              /\ Entry(disk.files[rootOf(projectOf(exps[i]))], exps[i].k).v = exps[i].v
    /\ last.log = DocNames(1) \o <<"experiments.yml">>

\* C15, its case: a registry of two names, an Archive before a Document, has
\* been saved
C15_Witness ==
  /\ last.op = "save" /\ last.ok
  /\ Len(exps) = 2 /\ exps[1].t = "arch" /\ exps[2].t = "doc"
  /\ Len(last.log) = 2

\* the path-like values of the i-th Document of the registry are relative
RelativePaths(i) ==
  \A j \in 1..Len(exps[i].v) :
    exps[i].v[j].k \in paths /\ exps[i].v[j].t = "str" => ~isabs(exps[i].v[j].v)

\* a save() that returned left the names and their order, the Archives and
\* the references as they were (last.trip is the registry it was called on),
\* and every Document with relative paths
SaveFrame ==
  last.op = "save" /\ last.ok =>
    /\ Len(exps) = Len(last.trip)
    /\ \A i \in 1..Len(exps) :
         /\ exps[i].k = last.trip[i].k
         /\ last.trip[i].t \in {"arch", "ref"} => exps[i] = last.trip[i]
         /\ exps[i].t = "doc" => RelativePaths(i)

\* a read that follows a save() that returned leaves the registry as it is:
\* a Document is returned with the relative paths save() gave it
ReadAfterSave ==
  last.op = "save" /\ last.ok /\ last'.op = "getitem" =>
    last'.ok /\ ~last'.loaded /\ exps' = exps

\* C19: save() leaves every Document of the registry with relative paths,
\* and a read after it returns that relative form; the names, their order,
\* the Archives and the references of the registry are as before the save.
C19_SaveFrame == []SaveFrame /\ [][ReadAfterSave]_vars

\* no list of the project->experiments index holds a name twice
NoDuplicates ==
  \A n \in ProjNames : \A i, j \in 1..Len(pmap[n]) :
    pmap[n][i] = pmap[n][j] => i = j

\* a step of one registry (the construction of a new registry starts a new
\* index) keeps every list of the index as the head of the list it leaves
OnlyGrows ==
  last'.op # "init" =>
    \A n \in ProjNames :
      /\ Len(pmap'[n]) >= Len(pmap[n])
      /\ \A i \in 1..Len(pmap[n]) : pmap'[n][i] = pmap[n][i]

\* C20: whatever constructions, reads, assignments, archivals and accesses
\* of project_map came before, no list of the project->experiments index
\* holds a name twice, and no step of a registry takes a name off a list.
C20_IndexGrows == []NoDuplicates /\ [][OnlyGrows]_vars

\* C20, its case: project_map was read while the name was listed already;
\* after its re-assignment to the other project it is in both lists
C20_Witness ==
  /\ last.op = "project_map"
  /\ \A n \in ProjNames : pmap[n] = <<"e1">>
  /\ Has(exps, "e1")

\* C11: every value of the Experiments Registry is a reference to an
\* experiment file, a Document or an Archive, never None, whatever
\* construction, reads, assignments, save and load came before.
C11_ValuesTyped ==
  \A i \in 1..Len(exps) : exps[i].t \in {"ref", "doc", "arch"}

-----------------------------------------------------------------------------
(* Config: the three registries of one configuration directory *)

\* ProjectsConfig(conf_dir) from the files: the registry and its index, ok
\* FALSE when it raises (projects.yml holds no mapping, a project file is
\* missing)
loadedProjects(pp) ==
  [ok |-> pp.t = "map" /\ \A i \in 1..Len(pp.v) : disk.pfiles[pp.v[i].v].ex,
   project_paths |-> pp,
   projects |-> IF pp.t # "map" THEN <<>>
                ELSE [i \in 1..Len(pp.v) |->
                        [k |-> pp.v[i].k, t |-> "map", v |-> disk.pfiles[pp.v[i].v].v]]]

\* ProjectsConfig(conf_dir) that reads projects.yml without a look whether
\* it exists
loadProjectsUnchecked ==
  IF disk.pindex.ex THEN loadedProjects(disk.pindex.v)
  ELSE [ok |-> FALSE, project_paths |-> project_paths, projects |-> projects]

\* lines 434-437: projects.yml is read if it exists
loadProjects ==
  loadedProjects(IF disk.pindex.ex THEN disk.pindex.v ELSE [t |-> "map", v |-> <<>>])

\* ExperimentsConfig(projects) from the files, for the Projects Registry as
\* it is
freshExperiments ==
  IF projects = <<>> THEN [E |-> <<>>, pm |-> [n \in ProjNames |-> <<>>]]
  ELSE setFiles(exp_files([n \in ProjNames |-> <<>>]))

\* Config.__init__ behind ProjectsConfig(conf_dir), which left r: the
\* Experiments Registry is made of the new Projects Registry
ConfLoaded(r) ==
  /\ projects' = r.projects
  /\ project_paths' = r.project_paths
  /\ UNCHANGED disk
  /\ exps' = freshExperiments'.E
  /\ pmap' = freshExperiments'.pm
  /\ last' = [op |-> "conf_init", ok |-> TRUE,
              pindex |-> disk.pindex.ex, index |-> disk.index.ex]

\* Config(name) in a new process; the process before may hang in its
\* save().  When ProjectsConfig raises there is no Config.
ConfInit ==
  /\ IF loadProjects.ok THEN ConfLoaded(loadProjects)
     ELSE /\ last' = IF last.op = "hung" THEN last ELSE [op |-> "conf_init", ok |-> FALSE,
                                                         pindex |-> disk.pindex.ex,
                                                         index |-> disk.index.ex]
          /\ UNCHANGED <<projects, project_paths, exps, pmap, disk>>
  /\ UNCHANGED <<normVars, lockVars>>

\* lines 408-414 of ExperimentsConfig.save behind the loop that left r and
\* wrote the files of docs: what the call leaves, whether it returned (ok)
\* and whether it waits for its own lock for ever (hung)
expWritten(r, docs) ==
  [ok |-> r.ok /\ platform = "posix", hung |-> r.ok /\ platform = "windows",
   E |-> r.E, files |-> r.files,
   index |-> IF r.ok /\ platform = "posix" THEN FileOf(masterIndex(r.E)) ELSE disk.index,
   log |-> IF r.ok /\ platform = "posix" THEN Append(docs, "experiments.yml") ELSE docs]

\* ExperimentsConfig.save behind dict(self), which left g
expSaved(g) ==
  IF g.ok THEN expWritten(saveDocs(g.E, 1, disk.files), docLog(g.E, 1))
  ELSE [ok |-> FALSE, hung |-> FALSE, E |-> g.E, files |-> disk.files,
        index |-> disk.index, log |-> <<>>]

\* a Config.save that saves the experiments whatever projects.save() did
ConfSavedUnordered(ps, x) ==
  /\ project_paths' = IF ps.ok THEN ps.acc ELSE project_paths
  /\ exps' = x.E
  /\ disk' = [pfiles  |-> ps.pf,
              pindex  |-> IF ps.ok THEN FileOf(ps.acc) ELSE disk.pindex,
              files   |-> x.files,
              index   |-> x.index,
              globals |-> IF ps.ok /\ x.ok THEN FileOf(<<>>) ELSE disk.globals]
  /\ last' = [op  |-> IF ps.ok /\ x.hung THEN "hung" ELSE "conf_save",
              ok  |-> ps.ok /\ x.ok,
              log |-> IF ~ps.ok THEN <<>>
                      ELSE IF ~x.ok THEN <<"projects.yml">> \o x.log
                      ELSE <<"projects.yml">> \o x.log \o <<"globals.yml">>]

\* Config.save (lines 485-488): ps is the outcome of the loop of
\* projects.save(), x that of experiments.save(), which is called when
\* projects.save() returned; globals.yml is written when both returned
ConfSaved(ps, x) ==
  /\ project_paths' = IF ps.ok THEN ps.acc ELSE project_paths
  /\ exps' = IF ps.ok THEN x.E ELSE exps
  /\ disk' = [pfiles  |-> ps.pf,
              pindex  |-> IF ps.ok THEN FileOf(ps.acc) ELSE disk.pindex,
              files   |-> IF ps.ok THEN x.files ELSE disk.files,
              index   |-> IF ps.ok THEN x.index ELSE disk.index,
              globals |-> IF ps.ok /\ x.ok THEN FileOf(<<>>) ELSE disk.globals]
  /\ last' = [op  |-> IF ps.ok /\ x.hung THEN "hung" ELSE "conf_save",
              ok  |-> ps.ok /\ x.ok,
              log |-> IF ~ps.ok THEN <<>>
                      ELSE IF ~x.ok THEN <<"projects.yml">> \o x.log
                      ELSE <<"projects.yml">> \o x.log \o <<"globals.yml">>]

\* Config.save(); the read of the failAt-th experiment in dict(self) meets
\* an I/O error
ConfSave(failAt) ==
  /\ last.op # "hung"
  /\ ConfSaved(projSaveLoop(1, [t |-> "map", v |-> <<>>], disk.pfiles),
               expSaved(getAll(exps, 1, failAt)))
  /\ UNCHANGED <<projects, pmap, normVars, lockVars>>

\* the configuration directory before the first run, and no registry yet
InitConf ==
  norm = NormIdle /\ platform \in {"posix", "windows"} /\ LockIdle /\ RegIdle

\* the Documents assigned to experiment names of a configuration

\* one configuration: its construction, assignments to the registries and
\* save()
NextConf ==
  \/ ConfInit
  \/ \E n \in ProjNames, tag \in {"map", "ref"} : SetProject(n, tag)
  \/ \E key \in ExpNames, d \in ConfDocs : SetItem(key, "doc", d)
  \/ \E key \in ExpNames, a \in InputArchives : SetItem(key, "arch", a)
  \/ \E failAt \in 0..Cardinality(ExpNames) : ConfSave(failAt)
SpecConf == InitConf /\ [][NextConf]_vars

-----------------------------------------------------------------------------
(* Claims on Config *)

\* C12 as stated: a Projects Registry constructed while projects.yml is
\* missing is empty, an Experiments Registry constructed while
\* experiments.yml is missing is empty, and neither construction raises.
C12_AsClaimed ==
  last.op = "conf_init" =>
    /\ ~last.pindex => last.ok /\ projects = <<>>
    /\ ~last.index => last.ok /\ exps = <<>>

\* no directory of a registered project holds an experiment file
NoExperimentFile ==
  \A i \in 1..Len(projects) : disk.files[Entry(projects[i].v, "root").v] = <<>>

\* C12: a Projects Registry constructed while projects.yml is missing is
\* empty, its construction does not raise, and the Experiments Registry
\* made of it is empty; an Experiments Registry constructed while
\* experiments.yml is missing is empty when no directory of a registered
\* project holds an experiment file, and holds references only otherwise.
C12_Bootstrap ==
  last.op = "conf_init" =>
    /\ ~last.pindex => last.ok /\ projects = <<>> /\ exps = <<>>
    /\ ~last.index /\ last.ok =>
         /\ NoExperimentFile => exps = <<>>
         /\ \A i \in 1..Len(exps) : exps[i].t = "ref"

\* C12, its case: the first construction, without projects.yml and
\* without experiments.yml
C12_Witness ==
  /\ last.op = "conf_init" /\ last.ok
  /\ ~last.pindex /\ ~last.index
  /\ projects = <<>> /\ exps = <<>>

\* the files that Config.save wrote, in the order of writing
ConfLog(l) == IF l.op \in {"conf_save", "hung"} THEN l.log ELSE <<>>

\* projects.yml is the first file written, globals.yml comes after
\* experiments.yml, and a save that failed wrote no globals.yml
SaveOrder ==
  \A i \in 1..Len(ConfLog(last)) :
    /\ ConfLog(last)[i] # "projects.yml" =>
         \E j \in 1..(i - 1) : ConfLog(last)[j] = "projects.yml"
    /\ ConfLog(last)[i] = "globals.yml" =>
         /\ last.ok
         /\ \E j \in 1..(i - 1) : ConfLog(last)[j] = "experiments.yml"

\* what a Config.save did not write is on disk as it was
SaveLeaves ==
  last'.op \in {"conf_save", "hung"} =>
    /\ ConfLog(last') = <<>> =>
         /\ disk'.pindex = disk.pindex /\ disk'.files = disk.files
         /\ disk'.index = disk.index /\ disk'.globals = disk.globals
    /\ (\A i \in 1..Len(ConfLog(last')) : ConfLog(last')[i] # "experiments.yml") =>
         disk'.index = disk.index /\ disk'.globals = disk.globals
    /\ (\A i \in 1..Len(ConfLog(last')) : ConfLog(last')[i] # "globals.yml") =>
         disk'.globals = disk.globals

\* C17: Config.save writes projects.yml before any experiment file and
\* before experiments.yml, and globals.yml after experiments.yml; when a
\* stage fails, the files of the later stages are left as they were.
C17_SaveInOrder == []SaveOrder /\ [][SaveLeaves]_vars

\* C17, its case: a Config.save that wrote the three stages, an experiment
\* file among them
C17_Witness ==
  /\ last.op = "conf_save" /\ last.ok
  /\ Len(last.log) = 4 /\ last.log[4] = "globals.yml"
  /\ disk.pindex.ex /\ disk.index.ex /\ disk.globals.ex

=============================================================================
